---- MODULE Spec2Model ----
(***************************************************************************)
(* A model of prtpy's best-fit bin packing (prtpy/packing/best_fit.py:     *)
(* online, decreasing) and of the partition adaptor                        *)
(* (prtpy/partitioning/__init__.py: partition).                            *)
(*                                                                         *)
(* An item occurrence is identified by its position in the caller's list, *)
(* so two items of the same value stay distinct.  valueof maps an item to *)
(* its value.  Bin indices are 0-based as in the source; bin b is         *)
(* bins[b+1].                                                              *)
(***************************************************************************)
EXTENDS Integers, Sequences, FiniteSets, TLC

(* ------------------------------ bounds --------------------------------- *)
MaxItems == 3
MaxValue == 2
MaxBinsize == 2
MaxAnomalyItems == 6

Values == 0..MaxValue
Binsizes == 1..MaxBinsize
FacadeSizes == {0, 2}
AnomalyBinsizes == {7}
AnomalyValues == {2, 3, 4}
Algos == {"decreasing", "online"}

VARIABLES
    binsize,   \* the binsize argument of both calls
    valueof,   \* the valueof argument: item -> value
    facade,    \* number of bins held by the Bins object passed as `bins`
    args,      \* args[a]: the list object the caller passes as `items` to a
    algo,      \* the entry point the caller is currently in
    pc,        \* position inside the current call
    items,     \* online's parameter `items`
    pos,       \* number of loop iterations of online completed
    bins,      \* online's local `bins` (a bin-state keeping sums and contents)
    numbins,   \* online's local `numbins`
    ret,       \* ret[a]: what call a gave back to the caller
    partition, \* the frame of partition()
    trace      \* the calls partition() made to its collaborators, in order

packvars == <<binsize, valueof, facade, args, algo, pc, items, pos, bins, numbins, ret>>
partvars == <<partition, trace>>
vars == <<binsize, valueof, facade, args, algo, pc, items, pos, bins, numbins, ret,
          partition, trace>>

(* ------------------------------ helpers -------------------------------- *)
Ident(n) == [i \in 1..n |-> i]

Perms(n) == {p \in [1..n -> 1..n] : \A i, j \in 1..n : i # j => p[i] # p[j]}

Front(s) == SubSeq(s, 1, Len(s) - 1)

Last(s) == s[Len(s)]

RECURSIVE SumOver(_, _)
SumOver(s, f) == IF s = <<>> THEN 0 ELSE f[Head(s)] + SumOver(Tail(s), f)

Pending == [kind |-> "pending", bins |-> <<>>]
ValueError == [kind |-> "ValueError", bins |-> <<>>]
IndexError == [kind |-> "IndexError", bins |-> <<>>]
Returned(b) == [kind |-> "bins", bins |-> b]

(* ------------------- the binner (contract of section 4.1) -------------- *)
EmptyBin == [sum |-> 0, contents |-> <<>>]

new_bins(n) == [i \in 1..n |-> EmptyBin]

add_empty_bins(state, n) == state \o new_bins(n)

sums(state) == [i \in 1..Len(state) |-> state[i].sum]

in_range(state, index) == index >= 0 /\ index < Len(state)

add_item_to_bin(state, item, index) ==
    [state EXCEPT ![index + 1] = [sum |-> @.sum + valueof[item],
                                  contents |-> Append(@.contents, item)]]

(* ------------------------- best_fit.py: decreasing --------------------- *)
\* Variant: x goes before the equal-keyed elements (a sort that is not stable).
RECURSIVE InsertUnstable(_, _, _)
InsertUnstable(s, x, key) ==
    IF s = <<>> THEN <<x>>
    ELSE IF key[Head(s)] > key[x] THEN <<Head(s)>> \o InsertUnstable(Tail(s), x, key)
    ELSE <<x>> \o s

\* Variant: smallest first (reverse=True left out).
RECURSIVE InsertAscending(_, _, _)
InsertAscending(s, x, key) ==
    IF s = <<>> THEN <<x>>
    ELSE IF key[Head(s)] <= key[x] THEN <<Head(s)>> \o InsertAscending(Tail(s), x, key)
    ELSE <<x>> \o s

\* Insert x after every element whose key is >= key[x]: s stays non-increasing
\* and x comes after the equal-keyed elements already there.
RECURSIVE InsertDesc(_, _, _)
InsertDesc(s, x, key) ==
    IF s = <<>> THEN <<x>>
    ELSE IF key[Head(s)] >= key[x] THEN <<Head(s)>> \o InsertDesc(Tail(s), x, key)
    ELSE <<x>> \o s

\* sorted(seq, key=key, reverse=True): a new list, non-increasing by key, equal
\* keys in their input order.
RECURSIVE sorted_reverse(_, _)
sorted_reverse(seq, key) ==
    IF seq = <<>> THEN <<>>
    ELSE InsertDesc(sorted_reverse(Front(seq), key), Last(seq), key)

(* --------------------------- best_fit.py: online ----------------------- *)
\* Variant: >= for >.
exceeds_or_equals(value, size) == value >= size

\* if value > binsize
exceeds(value, size) == value > size

\* Variants of the test in the scan: without the capacity test, with >= on
\* the best sum so far, with < on the capacity.
fits_ignoring_capacity(new_sum, size, best_sum) == new_sum > best_sum

fits_last_tie(new_sum, size, best_sum) == new_sum <= size /\ new_sum >= best_sum

fits_strictly(new_sum, size, best_sum) == new_sum < size /\ new_sum > best_sum

\* if new_sum <= binsize and new_sum > best_bin[1]
fits_better(new_sum, size, best_sum) == new_sum <= size /\ new_sum > best_sum

\* The while loop: ibin runs over 0..numbins-1, best_bin = (index, new_sum).
RECURSIVE Scan(_, _, _, _, _, _)
Scan(s, n, value, size, ibin, best_bin) ==
    IF ibin < n
    THEN LET new_sum == s[ibin + 1] + value
         IN  Scan(s, n, value, size, ibin + 1,
                  IF fits_better(new_sum, size, best_bin[2])
                  THEN <<ibin, new_sum>> ELSE best_bin)
    ELSE [ibin |-> ibin, best_bin |-> best_bin]

\* Variant: new_bins(numbins + 1) in place of add_empty_bins(bins, 1).
PlaceRecreate(state, n, scan) ==
    IF scan.best_bin[1] > -1
    THEN [bins |-> state, numbins |-> n, index |-> scan.best_bin[1]]
    ELSE [bins |-> new_bins(n + 1), numbins |-> n + 1, index |-> scan.ibin]

\* if best_bin[0] > -1 ... else ...: the bin index that receives the item, and
\* the bin-state it is added to.
Place(state, n, scan) ==
    IF scan.best_bin[1] > -1
    THEN [bins |-> state, numbins |-> n, index |-> scan.best_bin[1]]
    ELSE [bins |-> add_empty_bins(state, 1), numbins |-> n + 1, index |-> scan.ibin]

\* decreasing(bins, binsize, items, valueof): sorts a copy and enters online.
decreasing ==
    /\ algo = "decreasing" /\ pc = "call"
    /\ items' = sorted_reverse(args["decreasing"], valueof)
    /\ pc' = "entry"
    /\ UNCHANGED <<binsize, valueof, facade, args, algo, pos, bins, numbins, ret>>
    /\ UNCHANGED partvars

\* The caller calls online(bins, binsize, items, valueof) directly.
OnlineCall ==
    /\ algo = "online" /\ pc = "call"
    /\ items' = args["online"]
    /\ pc' = "entry"
    /\ UNCHANGED <<binsize, valueof, facade, args, algo, pos, bins, numbins, ret>>
    /\ UNCHANGED partvars

\* Variant: the run goes on with as many bins as the facade holds.
OnlineEntryKeepFacade ==
    /\ pc = "entry"
    /\ bins' = new_bins(facade)
    /\ numbins' = 1
    /\ pos' = 0
    /\ pc' = "loop"
    /\ UNCHANGED <<binsize, valueof, facade, args, algo, items, ret>>
    /\ UNCHANGED partvars

\* binner = bins.get_binner(); bins = binner.new_bins(1); numbins = 1
OnlineEntry ==
    /\ pc = "entry"
    /\ bins' = new_bins(1)
    /\ numbins' = 1
    /\ pos' = 0
    /\ pc' = "loop"
    /\ UNCHANGED <<binsize, valueof, facade, args, algo, items, ret>>
    /\ UNCHANGED partvars

\* One iteration of `for item in items`.
OnlineItem ==
    /\ pc = "loop" /\ pos < Len(items)
    /\ LET item == items[pos + 1]
           value == valueof[item]
       IN  IF exceeds(value, binsize)
           THEN /\ pc' = "raised"
                /\ ret' = [ret EXCEPT ![algo] = ValueError]
                /\ UNCHANGED <<bins, numbins, pos>>
           ELSE LET scan == Scan(sums(bins), numbins, value, binsize, 0, <<-1, -1>>)
                    place == Place(bins, numbins, scan)
                IN  IF in_range(place.bins, place.index)
                    THEN /\ bins' = add_item_to_bin(place.bins, item, place.index)
                         /\ numbins' = place.numbins
                         /\ pos' = pos + 1
                         /\ UNCHANGED <<pc, ret>>
                    ELSE /\ pc' = "raised"
                         /\ ret' = [ret EXCEPT ![algo] = IndexError]
                         /\ bins' = place.bins
                         /\ numbins' = place.numbins
                         /\ UNCHANGED pos
    /\ UNCHANGED <<binsize, valueof, facade, args, algo, items>>
    /\ UNCHANGED partvars

\* return bins
OnlineReturn ==
    /\ pc = "loop" /\ pos = Len(items)
    /\ pc' = "returned"
    /\ ret' = [ret EXCEPT ![algo] = Returned(bins)]
    /\ UNCHANGED <<binsize, valueof, facade, args, algo, items, pos, bins, numbins>>
    /\ UNCHANGED partvars

\* The caller, done with decreasing, goes on to call online; the finished
\* frame is gone.
NextCall ==
    /\ algo = "decreasing" /\ pc \in {"returned", "raised"}
    /\ algo' = "online"
    /\ pc' = "call"
    /\ items' = <<>>
    /\ pos' = 0
    /\ bins' = <<>>
    /\ numbins' = 0
    /\ UNCHANGED <<binsize, valueof, facade, args, ret>>
    /\ UNCHANGED partvars

PartitionIdle == [pc |-> "idle"]

InitFrame ==
    /\ algo = "decreasing"
    /\ pc = "call"
    /\ items = <<>>
    /\ pos = 0
    /\ bins = <<>>
    /\ numbins = 0
    /\ ret = [a \in Algos |-> Pending]
    /\ facade \in FacadeSizes
    /\ partition = PartitionIdle
    /\ trace = <<>>

\* Every input within the bounds; online gets the items in any order.
InitSmall ==
    /\ binsize \in Binsizes
    /\ \E n \in 0..MaxItems :
          /\ valueof \in [1..n -> Values]
          /\ \E p \in Perms(n) : args = [decreasing |-> Ident(n), online |-> p]

\* The documented calls: the two doctests of online and the oversized item.
Documented ==
    { [binsize |-> 9, values |-> <<4, 7, 2, 1, 5, 8, 4>>],
      [binsize |-> 18, values |-> <<1, 2, 10, 14, 4, 10, 5>>],
      [binsize |-> 9, values |-> <<10>>] }

InitDocumented ==
    \E d \in Documented :
        /\ binsize = d.binsize
        /\ valueof = d.values
        /\ args = [a \in Algos |-> Ident(Len(d.values))]

\* Longer lists over few values, both entry points given the same list.
InitAnomaly ==
    /\ binsize \in AnomalyBinsizes
    /\ \E n \in 0..MaxAnomalyItems :
          /\ valueof \in [1..n -> AnomalyValues]
          /\ args = [a \in Algos |-> Ident(n)]

Init == InitFrame /\ (InitSmall \/ InitDocumented \/ InitAnomaly)

Next ==
    \/ decreasing
    \/ OnlineCall
    \/ OnlineEntry
    \/ OnlineItem
    \/ OnlineReturn
    \/ NextCall

Spec == Init /\ [][Next]_vars

(* ------------------------- properties of the packer -------------------- *)
Range(s) == {s[i] : i \in 1..Len(s)}

RECURSIVE Flat(_)
Flat(state) == IF state = <<>> THEN <<>> ELSE Head(state).contents \o Flat(Tail(state))

ValuesOf(s) == [i \in 1..Len(s) |-> valueof[s[i]]]

SomeExceeds == \E i \in DOMAIN valueof : valueof[i] > binsize

InRun == pc \in {"loop", "returned", "raised"}

\* The bins (0-based) that can take a value without exceeding binsize.
Feasible(value) == {b \in 0..(Len(bins) - 1) : bins[b + 1].sum + value <= binsize}

\* The fullest feasible bin, the earliest-created one among equals.
Tightest(value) ==
    CHOOSE b \in Feasible(value) :
        \A c \in Feasible(value) :
            \/ bins[c + 1].sum < bins[b + 1].sum
            \/ bins[c + 1].sum = bins[b + 1].sum /\ b <= c

\* A step that completes one loop iteration of online by placing an item.
ItemStep == pc = "loop" /\ pc' = "loop" /\ pos' = pos + 1

PosIn(s, x) == CHOOSE i \in 1..Len(s) : s[i] = x

IsNonIncreasing(s) == \A i, j \in 1..Len(s) : i < j => valueof[s[i]] >= valueof[s[j]]

\* s is orig sorted by value, largest first, equal values in orig's order.
IsStableDecreasing(s, orig) ==
    /\ Len(s) = Len(orig)
    /\ Range(s) = Range(orig)
    /\ \A i, j \in 1..Len(s) : i < j =>
          \/ valueof[s[i]] > valueof[s[j]]
          \/ valueof[s[i]] = valueof[s[j]] /\ PosIn(orig, s[i]) < PosIn(orig, s[j])

BothReturned == \A a \in Algos : ret[a].kind = "bins"

\* C1: while online runs and in every bin-state online or decreasing returns,
\* every bin's sum is at most binsize (item values are non-negative).
C1_CapacityInvariant ==
    /\ \A i \in 1..Len(bins) : bins[i].sum <= binsize
    /\ \A a \in Algos : \A i \in 1..Len(ret[a].bins) : ret[a].bins[i].sum <= binsize

C1_Witness ==
    /\ ret["online"].kind = "bins"
    /\ Len(ret["online"].bins) >= 2
    /\ \E i \in 1..Len(ret["online"].bins) : ret["online"].bins[i].sum = binsize
    /\ \E i \in 1..Len(ret["online"].bins) : Len(ret["online"].bins[i].contents) >= 2

\* C2: in a returned bin-state every input item occurrence is in exactly one
\* bin, exactly once, and each bin's sum is the sum of valueof over its items.
C2_Coverage ==
    \A a \in Algos : ret[a].kind = "bins" =>
        /\ Len(Flat(ret[a].bins)) = Len(args[a])
        /\ Range(Flat(ret[a].bins)) = Range(args[a])
        /\ \A i \in 1..Len(ret[a].bins) :
              ret[a].bins[i].sum = SumOver(ret[a].bins[i].contents, valueof)

\* Two items of the same value end in different bins.
C2_Witness ==
    /\ ret["online"].kind = "bins"
    /\ \E i, j \in 1..Len(ret["online"].bins) :
          /\ i < j
          /\ \E x \in Range(ret["online"].bins[i].contents) :
             \E y \in Range(ret["online"].bins[j].contents) :
                 valueof[x] = valueof[y]

DocumentedResults ==
    /\ (ret["online"].kind = "bins" /\ binsize = 9 /\ ValuesOf(args["online"]) = <<4, 7, 2, 1, 5, 8, 4>>)
          => [i \in 1..Len(ret["online"].bins) |-> ValuesOf(ret["online"].bins[i].contents)]
                = << <<4, 1, 4>>, <<7, 2>>, <<5>>, <<8>> >>
    /\ (ret["online"].kind = "bins" /\ binsize = 18 /\ ValuesOf(args["online"]) = <<1, 2, 10, 14, 4, 10, 5>>)
          => /\ sums(ret["online"].bins) = <<18, 18, 10>>
             /\ [i \in 1..Len(ret["online"].bins) |-> ValuesOf(ret["online"].bins[i].contents)]
                   = << <<1, 2, 10, 5>>, <<14, 4>>, <<10>> >>

\* C3: an item that some existing bin can take goes to the feasible bin whose
\* resulting sum is largest, the lowest-indexed one among equals; the two
\* documented calls give the documented bins.
C3_BestFitSelection ==
    [][ /\ ItemStep =>
             LET item == items[pos + 1]
                 value == valueof[item]
             IN  Feasible(value) # {} =>
                     bins' = [bins EXCEPT ![Tightest(value) + 1] =
                                 [sum |-> @.sum + value,
                                  contents |-> Append(@.contents, item)]]
        /\ DocumentedResults' ]_vars

\* online has just placed an item that two equally full bins could take, in
\* the earlier of the two.
C3_Witness ==
    /\ algo = "online"
    /\ pc = "loop" /\ pos >= 1 /\ Len(bins) >= 2
    /\ \E b, c \in 1..Len(bins) :
          /\ b < c
          /\ bins[b].contents # <<>>
          /\ Last(bins[b].contents) = items[pos]
          /\ bins[b].sum - valueof[items[pos]] = bins[c].sum

\* C4 as stated: decreasing never returns more bins than online does on the
\* same items, whatever order online receives them in.
C4_DecreasingNeverMore ==
    BothReturned => Len(ret["decreasing"].bins) <= Len(ret["online"].bins)

\* C4 amended: decreasing never returns more bins than online does when online
\* receives the same items in non-increasing order of value.
C4_DecreasingNeverMoreThanOnlineOnSorted ==
    (BothReturned /\ IsNonIncreasing(args["online"]))
        => Len(ret["decreasing"].bins) <= Len(ret["online"].bins)

C4_Witness ==
    /\ BothReturned
    /\ IsNonIncreasing(args["online"])
    /\ Len(ret["online"].bins) >= 2
    /\ \E i, j \in DOMAIN valueof : valueof[i] # valueof[j]

\* C5: a call ends in ValueError, with no bin-state, exactly when some item's
\* value is greater than binsize (equal is fine); a call that returns gives
\* back a packing of all the items.
C5_CapacityViolation ==
    \A a \in Algos :
        /\ ret[a].kind \in {"pending", "bins", "ValueError"}
        /\ ret[a].kind = "ValueError" => (SomeExceeds /\ ret[a].bins = <<>>)
        /\ ret[a].kind = "bins" =>
              /\ ~SomeExceeds
              /\ Len(Flat(ret[a].bins)) = Len(args[a])
        /\ (algo = a /\ pc = "raised") => ret[a].kind = "ValueError"

\* online raised after it had already placed items.
C5_Witness ==
    /\ algo = "online" /\ pc = "raised"
    /\ ret["online"] = ValueError
    /\ pos >= 2
    /\ \E i \in DOMAIN valueof : valueof[i] = binsize

\* C8: a run starts with one empty bin whatever the facade held; an item that
\* is placed adds exactly one bin, and goes alone into that last bin, exactly
\* when no existing bin can take it; otherwise the count stays; existing bins
\* keep index, sum and contents when a bin is appended.
C8_BinCountEvolution ==
    [][ /\ (pc = "entry" /\ pc' = "loop") => (bins' = <<EmptyBin>> /\ numbins' = 1)
        /\ (pc = "loop" /\ pc' = "returned" /\ Len(items) = 0)
              => ret'[algo] = Returned(<<EmptyBin>>)
        /\ pc = "loop" => (Len(bins') >= Len(bins) /\ numbins' = Len(bins'))
        /\ ItemStep =>
             LET item == items[pos + 1]
                 value == valueof[item]
             IN  IF Feasible(value) = {}
                 THEN /\ Len(bins') = Len(bins) + 1
                      /\ SubSeq(bins', 1, Len(bins)) = bins
                      /\ Last(bins') = [sum |-> value, contents |-> <<item>>]
                 ELSE Len(bins') = Len(bins) ]_vars

C8_Witness ==
    /\ facade = 2
    /\ pc = "loop" /\ pos = 3
    /\ Len(bins) = 2
    /\ Len(bins[1].contents) = 2
    /\ bins[2].contents = <<items[2]>>

StableSortFacts ==
    /\ (algo = "decreasing" /\ pc # "call") => IsStableDecreasing(items, args["decreasing"])
    /\ (ret["decreasing"].kind # "pending" /\ ret["online"].kind # "pending"
           /\ IsStableDecreasing(args["online"], args["decreasing"]))
          => ret["decreasing"] = ret["online"]
    /\ (algo = "decreasing" /\ InRun /\ SomeExceeds)
          => (pos = 0 /\ pc # "returned" /\ bins = <<EmptyBin>>)
    /\ SomeExceeds => ret["decreasing"].kind # "bins"

\* C9: decreasing gives online the items sorted by value, largest first, equal
\* values in input order, and so returns what online returns on that list;
\* the caller's list is not modified; with an oversized item decreasing fails
\* on the first item it processes, before placing any.
C9_DecreasingIsOnlineOnStableSort ==
    [][ args' = args /\ StableSortFacts' ]_vars

\* Both calls returned, online was given the sorted list, and sorting moved
\* items and had equal values to keep in order.
C9_Witness ==
    /\ BothReturned
    /\ IsStableDecreasing(args["online"], args["decreasing"])
    /\ args["online"] # args["decreasing"]
    /\ \E i, j \in 1..Len(args["online"]) :
          i < j /\ valueof[args["online"][i]] = valueof[args["online"][j]]
    /\ Len(ret["decreasing"].bins) >= 2

\* C10: after every processed item the sums of any two bins together exceed
\* binsize; once an item has been processed no bin is without items, and
\* there are at most as many bins as processed items.
C10_AnyFit ==
    InRun =>
        /\ \A i, j \in 1..Len(bins) : i < j => bins[i].sum + bins[j].sum > binsize
        /\ pos >= 1 =>
              /\ \A i \in 1..Len(bins) : bins[i].contents # <<>>
              /\ Len(bins) <= pos

C10_Witness ==
    /\ pc = "loop" /\ pos = Len(items) /\ pos >= 3
    /\ Len(bins) = pos
    /\ \E i \in 1..Len(bins) : bins[i].sum < binsize

(* ------------------- partitioning/__init__.py: partition --------------- *)
\* A collection passed as `items`: a dict (elems are its keys in insertion
\* order, vals their values), a list (elems are its elements), or something
\* that is neither a mapping nor a sequence, such as a number ("scalar").
\* A valuation is [none |-> TRUE] for None, else the function in map.
Keys == {11, 12}
Universe == Keys \cup Values
OutputTypes == {"Partition", "Sums"}
PartNumbins == {2, 3}
AlgorithmOutcomes == {"Bins", "BinsArray", "raise"}

SeqsUpTo(S, n) == UNION {[1..m -> S] : m \in 0..n}

Injective(s) == \A i, j \in 1..Len(s) : i # j => s[i] # s[j]

Dicts ==
    {[shape |-> "dict", elems |-> ks, vals |-> vs] :
        <<ks, vs>> \in {kv \in SeqsUpTo(Keys, Cardinality(Keys)) \X SeqsUpTo(Values, Cardinality(Keys)) :
                           Len(kv[1]) = Len(kv[2]) /\ Injective(kv[1])}}

Lists == {[shape |-> "list", elems |-> es, vals |-> <<>>] : es \in SeqsUpTo(Values, MaxItems)}

Scalars == {[shape |-> "scalar", elems |-> <<>>, vals |-> <<v>>] : v \in {0, 1}}

NoValuation == [none |-> TRUE, map |-> <<>>]
Valuation(f) == [none |-> FALSE, map |-> f]
CallerValuations == {Valuation([x \in Universe |-> 1]), Valuation([x \in Universe |-> x + 1])}

\* items.keys()
keys(d) == [shape |-> "keys", elems |-> d.elems, vals |-> <<>>]

\* items.__getitem__
getitem(d) == Valuation([k \in Range(d.elems) |-> d.vals[PosIn(d.elems, k)]])

\* lambda item: item
identity == Valuation([x \in Universe |-> x])

NoBins == [type |-> "none", numbins |-> 0, by |-> "none"]
NoNames == [shape |-> "none", elems |-> <<>>, vals |-> <<>>]
NoResult == [kind |-> "none", via |-> "none", bins |-> NoBins]

\* One call partition() makes to a collaborator.
CallTo(fn, b, names, v, n) == [fn |-> fn, bins |-> b, item_names |-> names, valueof |-> v, numbins |-> n]

\* Variant: the defaults replace a supplied valueof.
NormalizeOverriding(c, v) ==
    IF c.shape = "dict"
    THEN [item_names |-> keys(c), valueof |-> getitem(c)]
    ELSE [item_names |-> c, valueof |-> identity]

\* if isinstance(items, dict): ... else: ...
Normalize(c, v) ==
    IF c.shape = "dict"
    THEN [item_names |-> keys(c), valueof |-> IF v.none THEN getitem(c) ELSE v]
    ELSE [item_names |-> c, valueof |-> IF v.none THEN identity ELSE v]

\* if isinstance(bins, Bins)   (line 76)
Extractor(b) ==
    IF b.type = "Bins" THEN "extract_output_from_bins" ELSE "extract_output_from_binsarray"

\* Variant: as PartitionNormalize, but rejecting what is neither a dict nor a list.
PartitionNormalizeValidating ==
    /\ partition.pc = "normalize"
    /\ LET n == Normalize(partition.call.items, partition.call.valueof)
       IN  IF partition.call.items.shape \notin {"dict", "list"}
           THEN partition' = [partition EXCEPT !.pc = "raised",
                                  !.result = [kind |-> "TypeError", via |-> "partition", bins |-> NoBins]]
           ELSE partition' = [partition EXCEPT !.pc = "create",
                                  !.item_names = n.item_names, !.valueof = n.valueof]
    /\ UNCHANGED trace
    /\ UNCHANGED packvars

PartitionNormalize ==
    /\ partition.pc = "normalize"
    /\ LET n == Normalize(partition.call.items, partition.call.valueof)
       IN  partition' = [partition EXCEPT !.pc = "create",
                             !.item_names = n.item_names, !.valueof = n.valueof]
    /\ UNCHANGED trace
    /\ UNCHANGED packvars

\* bins = outputtype.create_empty_bins(numbins, valueof)
PartitionCreateEmptyBins ==
    /\ partition.pc = "create"
    /\ LET b == [type |-> "Bins", numbins |-> partition.call.numbins, by |-> partition.call.outputtype]
       IN  /\ trace' = Append(trace, CallTo("create_empty_bins", NoBins, NoNames,
                                               partition.valueof, partition.call.numbins))
           /\ partition' = [partition EXCEPT !.pc = "algorithm", !.bins = b]
    /\ UNCHANGED packvars

\* bins = algorithm(bins, item_names, valueof, **kwargs): the algorithm is the
\* caller's; it returns a Bins object or a bins array, or raises.
PartitionAlgorithm ==
    /\ partition.pc = "algorithm"
    /\ trace' = Append(trace, CallTo("algorithm", partition.bins, partition.item_names,
                                      partition.valueof, 0))
    /\ \E outcome \in AlgorithmOutcomes :
          IF outcome = "raise"
          THEN partition' = [partition EXCEPT !.pc = "raised",
                                 !.result = [kind |-> "Exception", via |-> "algorithm", bins |-> NoBins]]
          ELSE partition' = [partition EXCEPT !.pc = "extract",
                                 !.bins = [type |-> outcome, numbins |-> partition.call.numbins,
                                           by |-> "algorithm"]]
    /\ UNCHANGED packvars

\* return outputtype.extract_output_from_bins(bins) or ..._from_binsarray(bins)
PartitionExtract ==
    /\ partition.pc = "extract"
    /\ trace' = Append(trace, CallTo(Extractor(partition.bins), partition.bins, NoNames,
                                      NoValuation, 0))
    /\ partition' = [partition EXCEPT !.pc = "returned",
                         !.result = [kind |-> partition.call.outputtype,
                                     via |-> Extractor(partition.bins),
                                     bins |-> partition.bins]]
    /\ UNCHANGED packvars

InitPartition ==
    /\ binsize = 1
    /\ valueof = <<>>
    /\ facade = 0
    /\ args = [a \in Algos |-> <<>>]
    /\ algo = "none"
    /\ pc = "idle"
    /\ items = <<>>
    /\ pos = 0
    /\ bins = <<>>
    /\ numbins = 0
    /\ ret = [a \in Algos |-> Pending]
    /\ trace = <<>>
    /\ \E c \in Dicts \cup Lists \cup Scalars, v \in {NoValuation} \cup CallerValuations,
          n \in PartNumbins, o \in OutputTypes :
          partition = [pc |-> "normalize",
                       call |-> [numbins |-> n, items |-> c, valueof |-> v, outputtype |-> o],
                       item_names |-> NoNames,
                       valueof |-> v,
                       bins |-> NoBins,
                       result |-> NoResult]

NextPartition ==
    \/ PartitionNormalize
    \/ PartitionCreateEmptyBins
    \/ PartitionAlgorithm
    \/ PartitionExtract

SpecPartition == InitPartition /\ [][NextPartition]_vars

(* ------------------------ properties of partition ---------------------- *)
AlgorithmCalls == {i \in 1..Len(trace) : trace[i].fn = "algorithm"}

PastAlgorithm == partition.pc \in {"extract", "returned"} \/ (partition.pc = "raised" /\ trace # <<>>)

Given == partition.call

\* C6 as stated: for a collection that is neither a mapping nor a sequence
\* partition raises before the algorithm is invoked.
C6_MalformedNeverReachesAlgorithm ==
    Given.items.shape = "scalar" =>
        /\ AlgorithmCalls = {}
        /\ partition.pc \notin {"algorithm", "extract", "returned"}

\* C6 amended: partition does not check the shape of a collection that is not
\* a dict: it raises nothing of its own, creates the empty bins and invokes
\* the algorithm on the collection itself; an error for such input can only
\* come out of the algorithm.
C6_MalformedIsHandedToAlgorithm ==
    Given.items.shape = "scalar" =>
        /\ partition.pc # "normalize" => partition.item_names = Given.items
        /\ partition.result.via # "partition"
        /\ partition.pc \in {"extract", "returned", "raised"} =>
              /\ AlgorithmCalls = {2}
              /\ trace[1].fn = "create_empty_bins"
              /\ trace[2].item_names = Given.items
        /\ partition.pc = "raised" => partition.result.via = "algorithm"

C6_Witness ==
    /\ Given.items.shape = "scalar"
    /\ partition.pc = "returned"
    /\ AlgorithmCalls # {}

\* C7: the algorithm gets the dict's keys and, by default, lookup in the
\* dict, or the list itself and, by default, the identity; a supplied valueof
\* is passed on unchanged; the algorithm is invoked once, after the output
\* type created the empty bins, and its result goes through
\* extract_output_from_bins if it is a Bins object, else through
\* extract_output_from_binsarray.
C7_InputNormalization ==
    /\ AlgorithmCalls \subseteq {2}
    /\ (partition.pc \in {"extract", "returned"}) => AlgorithmCalls = {2}
    /\ AlgorithmCalls = {2} =>
          /\ trace[1].fn = "create_empty_bins"
          /\ trace[1].numbins = Given.numbins
          /\ trace[1].valueof = trace[2].valueof
          /\ trace[2].bins = [type |-> "Bins", numbins |-> Given.numbins, by |-> Given.outputtype]
          /\ Given.items.shape = "dict" =>
                /\ trace[2].item_names.shape = "keys"
                /\ trace[2].item_names.elems = Given.items.elems
                /\ Given.valueof.none =>
                      /\ DOMAIN trace[2].valueof.map = Range(Given.items.elems)
                      /\ \A i \in 1..Len(Given.items.elems) :
                            trace[2].valueof.map[Given.items.elems[i]] = Given.items.vals[i]
          /\ Given.items.shape = "list" =>
                /\ trace[2].item_names = Given.items
                /\ Given.valueof.none =>
                      \A x \in Range(Given.items.elems) : trace[2].valueof.map[x] = x
          /\ ~trace[2].valueof.none
          /\ ~Given.valueof.none => trace[2].valueof = Given.valueof
    /\ partition.pc = "returned" =>
          /\ Len(trace) = 3
          /\ trace[3].bins = partition.bins
          /\ partition.bins.by = "algorithm"
          /\ trace[3].fn = IF partition.bins.type = "Bins"
                           THEN "extract_output_from_bins"
                           ELSE "extract_output_from_binsarray"
          /\ partition.result.via = trace[3].fn
          /\ partition.result.bins = partition.bins

\* A dict with two keys, no valueof, and an algorithm that returned an array.
C7_Witness ==
    /\ partition.pc = "returned"
    /\ Given.items.shape = "dict"
    /\ Len(Given.items.elems) = 2
    /\ Given.valueof.none
    /\ partition.bins.type = "BinsArray"

====
